---- MODULE Spec2Model ----
(***************************************************************************)
(* Model of src/app.py: the /interactions webhook (signature gate and      *)
(* router), the pending-orders and catalog views, and the four background  *)
(* threads (buy, confirm, cancel, dashboard) with the order store and the  *)
(* chat platform as collaborators whose calls may fail.                    *)
(*                                                                         *)
(* A custom_id is modelled as the sequence of its '_'-separated fields     *)
(* (custom_id.split('_')), which is a bijection with the string.           *)
(*                                                                         *)
(* Spec interleaves the deferred interactions and their threads at the     *)
(* collaborator calls; FairSpec adds that every started thread keeps being *)
(* scheduled; SpecWebhook is one call of the handler over every request    *)
(* and every content of the store.                                         *)
(***************************************************************************)
EXTENDS Integers, Sequences, FiniteSets, TLC

\* ------------------------------------------------------------------ bounds
MaxTasks == 2
MaxInitOrders == 2

\* --------------------------------------------------------------- constants
\* PRODUTOS in insertion order; each key split at '_'.
PRODUTOS == << <<"bot", "musica">>, <<"bot", "moderacao">>, <<"bot", "economia">> >>

NoProduct == <<>>

\* PRODUTOS.get(product_id): the key itself when present, else None.
ProdutosGet(pid) == IF \E k \in 1..Len(PRODUTOS) : PRODUTOS[k] = pid THEN pid ELSE NoProduct

\* ------------------------------------------------------- python primitives
Max(a, b) == IF a >= b THEN a ELSE b
Min(a, b) == IF a <= b THEN a ELSE b

\* int(s) on the field strings the model draws; any other string raises ValueError.
IntTable ==
    ("-1" :> -1) @@ ("0" :> 0) @@ ("1" :> 1) @@ ("2" :> 2) @@ ("3" :> 3) @@
    ("4" :> 4) @@ ("5" :> 5) @@ ("6" :> 6)

IsInt(s) == s \in DOMAIN IntTable
IntOf(s) == IntTable[s]

\* f"{n}": the decimal text of n, for the numbers the model reaches.
StrOf(n) == CHOOSE s \in DOMAIN IntTable : IntTable[s] = n

\* custom_id.startswith(prefix + "_")
StartsWith(cid, prefix) == Len(cid) >= 2 /\ cid[1] = prefix

\* custom_id.split('_', 1)[1]
RestAfterFirst(cid) == SubSeq(cid, 2, Len(cid))

\* ------------------------------------------------------------------- state
VARIABLES
    orders,      \* the 'pedidos' table: orders[id] = [status, thread_id, product_id]
    threadMsgs,  \* threadMsgs[thread id] = messages delivered into that thread
    tasks,       \* the background threads started so far, one per deferred interaction
    last         \* the webhook call handled last: request, response and effects

vars == <<orders, threadMsgs, tasks, last>>

\* A view: the embed (kind, page shown, order shown, "x de total" footer) and the
\* buttons (custom ids as field sequences, <<>> = no such button).
NoView == [kind |-> "none", page |-> 0, order |-> 0, total |-> 0,
           prevDisabled |-> FALSE, nextDisabled |-> FALSE,
           prevId |-> <<>>, nextId |-> <<>>, confirmId |-> <<>>, cancelId |-> <<>>,
           buy |-> <<>>]

\* ------------------------------------------------------------------- views
\* select('*').eq('status','pending_payment').order('id')
RECURSIVE PendingFrom(_, _)
PendingFrom(ords, i) ==
    IF i > Len(ords) THEN <<>>
    ELSE IF ords[i].status = "pending_payment"
         THEN <<i>> \o PendingFrom(ords, i + 1)
         ELSE PendingFrom(ords, i + 1)

PendingOrders(ords) == PendingFrom(ords, 1)

\* The pending view without the lower clamp, so that a page below 0 indexes the
\* list from its end as pending_orders[-1] does: not what the code does, and
\* C12_PaginationClamp tells the two apart.
build_pending_orders_view_unclamped(page, ords, outcome) ==
    IF outcome = "raise"
    THEN [NoView EXCEPT !.kind = "fetch_error"]
    ELSE LET pending_orders == PendingOrders(ords) IN
         IF pending_orders = <<>>
         THEN [NoView EXCEPT !.kind = "no_pending"]
         ELSE LET p == Min(page, Len(pending_orders) - 1)
                  at == IF p < 0 THEN Len(pending_orders) ELSE p + 1
              IN
              [kind |-> "pending", page |-> p, order |-> pending_orders[at],
               total |-> Len(pending_orders),
               prevDisabled |-> (p = 0),
               nextDisabled |-> (p >= Len(pending_orders) - 1),
               prevId |-> <<"pedidos", "prev", StrOf(p)>>,
               nextId |-> <<"pedidos", "next", StrOf(p)>>,
               confirmId |-> <<"pedidos", "confirm", StrOf(pending_orders[at]), StrOf(p)>>,
               cancelId |-> <<"pedidos", "cancel", StrOf(pending_orders[at]), StrOf(p)>>,
               buy |-> <<>>]

build_pending_orders_view(page, ords, outcome) ==
    IF outcome = "raise"
    THEN [NoView EXCEPT !.kind = "fetch_error"]
    ELSE LET pending_orders == PendingOrders(ords) IN
         IF pending_orders = <<>>
         THEN [NoView EXCEPT !.kind = "no_pending"]
         ELSE LET p == Max(0, Min(page, Len(pending_orders) - 1)) IN
              [kind |-> "pending", page |-> p, order |-> pending_orders[p + 1],
               total |-> Len(pending_orders),
               prevDisabled |-> (p = 0),
               nextDisabled |-> (p >= Len(pending_orders) - 1),
               prevId |-> <<"pedidos", "prev", StrOf(p)>>,
               nextId |-> <<"pedidos", "next", StrOf(p)>>,
               confirmId |-> <<"pedidos", "confirm", StrOf(pending_orders[p + 1]), StrOf(p)>>,
               cancelId |-> <<"pedidos", "cancel", StrOf(pending_orders[p + 1]), StrOf(p)>>,
               buy |-> <<>>]

\* A first page whose arrows carry page 1, as if pages were counted from 1: not
\* what the code does, and C13_CatalogPathIndependent tells the two apart.
comprar_view_one_based ==
    [kind |-> "catalog", page |-> 0, order |-> 0, total |-> Len(PRODUTOS),
     prevDisabled |-> TRUE, nextDisabled |-> (Len(PRODUTOS) <= 1),
     prevId |-> <<"catalog", "prev", "1">>, nextId |-> <<"catalog", "next", "1">>,
     confirmId |-> <<>>, cancelId |-> <<>>, buy |-> PRODUTOS[1]]

\* The view of the "comprar" command (page 0, literal ids catalog_prev_0/catalog_next_0).
comprar_view ==
    [kind |-> "catalog", page |-> 0, order |-> 0, total |-> Len(PRODUTOS),
     prevDisabled |-> TRUE, nextDisabled |-> (Len(PRODUTOS) <= 1),
     prevId |-> <<"catalog", "prev", "0">>, nextId |-> <<"catalog", "next", "0">>,
     confirmId |-> <<>>, cancelId |-> <<>>, buy |-> PRODUTOS[1]]

\* A catalog page whose arrows still carry the page that was clicked from and
\* whose next arrow is never disabled: not what the code does, and
\* C14_NavigationButtons tells the two apart.
catalog_view_stale_ids(action, page) ==
    LET new_page0 == page + (IF action = "next" THEN 1 ELSE -1)
        new_page == Max(0, Min(new_page0, Len(PRODUTOS) - 1))
    IN  [kind |-> "catalog", page |-> new_page, order |-> 0, total |-> Len(PRODUTOS),
         prevDisabled |-> (new_page = 0),
         nextDisabled |-> FALSE,
         prevId |-> <<"catalog", "prev", StrOf(page)>>,
         nextId |-> <<"catalog", "next", StrOf(page)>>,
         confirmId |-> <<>>, cancelId |-> <<>>, buy |-> PRODUTOS[new_page + 1]]

\* The view of a catalog_<action>_<page> click, after parsing succeeded.
catalog_view(action, page) ==
    LET new_page0 == page + (IF action = "next" THEN 1 ELSE -1)
        new_page == Max(0, Min(new_page0, Len(PRODUTOS) - 1))
    IN  [kind |-> "catalog", page |-> new_page, order |-> 0, total |-> Len(PRODUTOS),
         prevDisabled |-> (new_page = 0),
         nextDisabled |-> (new_page >= Len(PRODUTOS) - 1),
         prevId |-> <<"catalog", "prev", StrOf(new_page)>>,
         nextId |-> <<"catalog", "next", StrOf(new_page)>>,
         confirmId |-> <<>>, cancelId |-> <<>>, buy |-> PRODUTOS[new_page + 1]]

\* ---------------------------------------------------------------- requests
\* sig: the X-Signature-Ed25519 header ("absent", "empty", "malformed" = not the hex
\* of 64 bytes, "wrong" = well-formed but not a signature of timestamp+body, "valid").
\* ts: the X-Signature-Timestamp header.  utf8: whether the body decodes as UTF-8.
Members == {"absent", "plain", "admin"}

CustomIds ==
    { <<"catalog", "next", "0">>, <<"catalog", "prev", "1">>, <<"catalog", "next", "2">>,
      <<"catalog", "prev", "0">>, <<"catalog", "foo", "1">>, <<"catalog", "next", "x">>,
      <<"catalog", "next">>, <<"catalog", "next", "5">>, <<"catalog", "prev", "-1">>,
      <<"catalog", "prev", "2">>, <<"catalog", "next", "1">>,
      <<"buy", "bot", "musica">>, <<"buy", "nope">>,
      <<"pedidos", "prev", "1">>, <<"pedidos", "next", "0">>, <<"pedidos", "next", "x">>,
      <<"pedidos", "foo", "0">>, <<"pedidos", "next", "5">>, <<"pedidos", "prev", "0">>,
      <<"pedidos", "prev", "-1">>, <<"pedidos", "next", "1">>,
      <<"pedidos", "confirm", "1", "0">>, <<"pedidos", "confirm", "2", "1">>,
      <<"pedidos", "confirm", "x", "0">>, <<"pedidos", "confirm", "1">>,
      <<"pedidos", "cancel", "1", "0">>, <<"pedidos", "cancel", "2", "1">>,
      <<"pedidos", "cancel", "x", "0">>, <<"pedidos", "cancel", "1">>,
      <<"pedidos">>, <<"outro", "1">> }

Req(sig, ts, utf8, itype, name, cid, member) ==
    [sig |-> sig, ts |-> ts, utf8 |-> utf8, itype |-> itype, name |-> name,
     cid |-> cid, member |-> member]

\* The members that click a control: a buy button is open to everyone, also
\* outside a guild (no 'member' key); a pedidos control is clicked by an admin or
\* by a member without the role (the role can be taken away while the message
\* stays on screen).
ComponentMembers(cid) ==
    IF StartsWith(cid, "buy") THEN {"absent", "plain"}
    ELSE IF StartsWith(cid, "pedidos") THEN {"plain", "admin"}
    ELSE {"plain"}

\* Signed interactions as the platform sends them: a ping, a command with a name,
\* a component click with a custom_id, or another interaction type (4).
SignedRequests ==
    { Req("valid", "present", TRUE, 1, "", <<>>, "absent") } \cup
    { Req("valid", "present", TRUE, 2, n, <<>>, m) :
        n \in {"comprar", "pedidos", "dashboard", "outro"}, m \in Members } \cup
    UNION { { Req("valid", "present", TRUE, 3, "", c, m) : m \in ComponentMembers(c) } :
            c \in CustomIds } \cup
    { Req("valid", "present", TRUE, 4, "", <<>>, "plain") }

\* Requests that fail the gate, each carrying a payload that would start work if
\* it were routed: a header missing or empty, a signature that is malformed or
\* wrong, a body that is not UTF-8.
GatePayloads ==
    { Req("valid", "present", TRUE, 3, "", <<"buy", "bot", "musica">>, "plain"),
      Req("valid", "present", TRUE, 2, "pedidos", <<>>, "admin") }

UnsignedRequests ==
    { [q EXCEPT !.sig = s, !.ts = t, !.utf8 = u] :
        q \in GatePayloads,
        s \in {"absent", "empty", "malformed", "wrong", "valid"},
        t \in {"absent", "present"}, u \in BOOLEAN } \ GatePayloads

Requests == UnsignedRequests \cup SignedRequests

NoReq == Req("absent", "absent", TRUE, 0, "", <<>>, "absent")

\* ------------------------------------------------------------ synchronous handler
\* A gate that lets every guild member through: not what the code does, and
\* C11_CommandGate tells the two apart.
is_admin_any_member(r) == r.member # "absent"

\* Lines 75-78: "absent" = no 'member' or no 'roles' key; "plain" = roles without
\* ADMIN_ROLE_ID; "admin" = roles with it.
is_admin(r) == r.member = "admin"

\* The outcome of one webhook call: HTTP status, JSON type (0 = not a JSON reply),
\* message content, view, the background thread started ("" = none), store reads.
Resp(status, rtype, content, view, spawn, reads, routed) ==
    [status |-> status, rtype |-> rtype, content |-> content, view |-> view,
     spawn |-> spawn, reads |-> reads, routed |-> routed]

Fault500(routed) == Resp(500, 0, "fault", NoView, "", 0, routed)
Generic == Resp(200, 4, "unrecognized", NoView, "", 0, TRUE)
Denied == Resp(200, 4, "denied", NoView, "", 0, TRUE)

\* A buy click answered at once with a message while its thread is started all the
\* same: not what the code does, and C5_DeferredShape tells the two apart.
ack_buy_immediate == Resp(200, 4, "", NoView, "buy", 0, TRUE)

\* The deferred acknowledgements, each with the thread started before it is returned.
ack_dashboard == Resp(200, 5, "", NoView, "dashboard", 0, TRUE)    \* lines 255-256
ack_buy == Resp(200, 5, "", NoView, "buy", 0, TRUE)                \* lines 265-266
\* A confirm click acknowledged as a command is: not what the code does, and
\* C17_AckTypes tells the two apart.
ack_confirm_as_command == Resp(200, 5, "", NoView, "confirm", 0, TRUE)
ack_confirm == Resp(200, 6, "", NoView, "confirm", 0, TRUE)        \* lines 276-277
ack_cancel == Resp(200, 6, "", NoView, "cancel", 0, TRUE)          \* lines 280-281

\* Lines 240-256: commands.
route_command(r, ords, so) ==
    IF r.name = "comprar" THEN Resp(200, 4, "view", comprar_view, "", 0, TRUE)
    ELSE IF r.name = "pedidos" THEN
        IF ~is_admin(r) THEN Denied
        ELSE Resp(200, 4, "view", build_pending_orders_view(0, ords, so), "", 1, TRUE)
    ELSE IF r.name = "dashboard" THEN
        IF ~is_admin(r) THEN Denied
        ELSE ack_dashboard
    ELSE Generic

\* Lines 258-281: component clicks.
route_component(r, ords, so) ==
    LET custom_id == r.cid IN
    IF StartsWith(custom_id, "catalog") THEN
        \* parts[1] exists; parts[2] may not; int() may raise
        IF Len(custom_id) < 3 \/ ~IsInt(custom_id[3]) THEN Fault500(TRUE)
        ELSE Resp(200, 7, "view", catalog_view(custom_id[2], IntOf(custom_id[3])), "", 0, TRUE)
    ELSE IF StartsWith(custom_id, "buy") THEN ack_buy
    ELSE IF StartsWith(custom_id, "pedidos") THEN
        LET action == custom_id[2] IN
        IF action \in {"prev", "next"} THEN
            IF Len(custom_id) < 3 \/ ~IsInt(custom_id[3]) THEN Fault500(TRUE)
            ELSE LET page == IntOf(custom_id[3])
                     new_page == page + (IF action = "next" THEN 1 ELSE -1)
                 IN  Resp(200, 7, "view", build_pending_orders_view(new_page, ords, so),
                          "", 1, TRUE)
        ELSE IF action = "confirm" THEN ack_confirm
        ELSE IF action = "cancel" THEN ack_cancel
        ELSE Generic
    ELSE Generic

\* Lines 225-283: the whole handler, as a function of the request, the store
\* contents and the outcome of the store query a view would make.
Respond(r, ords, so) ==
    IF ~r.utf8 THEN Fault500(FALSE)                       \* line 228: body.decode raises
    ELSE IF r.sig \in {"absent", "empty"} \/ r.ts = "absent"
         THEN Resp(401, 0, "missing_signature", NoView, "", 0, FALSE)
    ELSE IF r.sig = "malformed" THEN Fault500(FALSE)      \* fromhex / length ValueError
    ELSE IF r.sig = "wrong"
         THEN Resp(401, 0, "invalid_signature", NoView, "", 0, FALSE)
    ELSE IF r.itype = 1 THEN Resp(200, 1, "", NoView, "", 0, TRUE)
    ELSE IF r.itype = 2 THEN route_command(r, ords, so)
    ELSE IF r.itype = 3 THEN route_component(r, ords, so)
    ELSE Generic

\* ------------------------------------------------------------- collaborators
\* A store call either returns or raises; nothing is written when it raises.
StoreOutcomes == {"ok", "raise"}

\* A platform call (requests.post/put/patch): "ok" = 2xx reply; "non2xx" = the
\* platform refuses and requests returns the reply without raising; "raise" = the
\* request never arrives and requests raises; "lost" = the platform carries the
\* request out but the reply is lost, and requests raises.
PlatformOutcomes == {"ok", "non2xx", "raise", "lost"}

Delivered(o) == o \in {"ok", "lost"}
Raises(o) == o \in {"raise", "lost"}

\* ------------------------------------------------------------ background tasks
NewTask(kind, r, ack) ==
    [kind |-> kind, cid |-> r.cid, member |-> r.member, ack |-> ack, pc |-> "start",
     thread |-> 0, order |-> 0, pre |-> "", view |-> NoView, fups |-> <<>>,
     stepfail |-> FALSE, raised |-> FALSE]

\* requests.patch(.../messages/@original, json=...) issued by task record tk with
\* outcome o; control goes to onRaise when the call raises, else the task returns.
Patch(tk, kind, o, onRaise) ==
    [tk EXCEPT !.fups = Append(@, [kind |-> kind, delivered |-> Delivered(o)]),
               !.raised = @ \/ Raises(o),
               !.pc = IF Raises(o) THEN onRaise ELSE "done"]

\* requests.post(.../channels/<thread>/messages, ...) with outcome o.
PostMessage(msgs, thread, kind, o) ==
    IF Delivered(o) /\ thread \in DOMAIN msgs
    THEN [msgs EXCEPT ![thread] = Append(@, kind)]
    ELSE msgs

\* An update without the .eq('id', order_id) filter: not what the code does, and
\* C19_OnlyNamedOrder tells the two apart.
UpdateStatus_unfiltered(ords, order_id, st) ==
    [i \in DOMAIN ords |-> [ords[i] EXCEPT !.status = st]]

\* update({'status': st}).eq('id', order_id): every row with that id, whatever its status.
UpdateStatus(ords, order_id, st) ==
    [i \in DOMAIN ords |-> IF i = order_id THEN [ords[i] EXCEPT !.status = st] ELSE ords[i]]

\* order_id = int(parts[2]) was reached and succeeded.
OrderIdBound(cid) == Len(cid) >= 3 /\ IsInt(cid[3])
\* current_page = int(parts[3]) was reached and succeeded.
PageParsed(cid) == OrderIdBound(cid) /\ Len(cid) >= 4 /\ IsInt(cid[4])

\* --------------------------------------------------- handle_confirm_order
\* Lines 122-127: parse the custom_id, then write 'completed'.  A parse fault
\* before order_id is bound makes the except block itself raise (the f-string
\* reads order_id): the thread dies without any follow-up.
confirm_update(t) ==
    /\ tasks[t].kind = "confirm" /\ tasks[t].pc = "start"
    /\ LET tk == tasks[t] IN
       IF ~OrderIdBound(tk.cid)
       THEN /\ tasks' = [tasks EXCEPT ![t].pc = "crashed"]
            /\ UNCHANGED orders
       ELSE IF ~PageParsed(tk.cid)
       THEN /\ tasks' = [tasks EXCEPT ![t].pc = "errpatch"]
            /\ UNCHANGED orders
       ELSE \E o \in StoreOutcomes :
            LET order_id == IntOf(tk.cid[3]) IN
            IF o = "raise"
            THEN /\ tasks' = [tasks EXCEPT ![t].pc = "errpatch", ![t].raised = TRUE]
                 /\ UNCHANGED orders
            ELSE /\ orders' = UpdateStatus(orders, order_id, "completed")
                 /\ tasks' = [tasks EXCEPT ![t].pc = "select",
                                 ![t].pre = IF order_id \in DOMAIN orders
                                            THEN orders[order_id].status ELSE "absent"]
    /\ UNCHANGED <<threadMsgs, last>>

\* A confirm that treats an order found already completed as an error: not what
\* the code does, and C2_ConfirmIdempotent tells the two apart.
confirm_select_strict(t) ==
    /\ tasks[t].kind = "confirm" /\ tasks[t].pc = "select"
    /\ \E o \in StoreOutcomes :
       LET tk == tasks[t]
           order_id == IntOf(tk.cid[3])
       IN  IF o = "raise" \/ order_id \notin DOMAIN orders
           THEN tasks' = [tasks EXCEPT ![t].pc = "errpatch", ![t].raised = TRUE]
           ELSE IF tk.pre = "completed"
           THEN tasks' = [tasks EXCEPT ![t].pc = "errpatch"]
           ELSE tasks' = [tasks EXCEPT ![t].order = order_id,
                              ![t].thread = orders[order_id].thread_id,
                              ![t].pc = "post"]
    /\ UNCHANGED <<orders, threadMsgs, last>>

\* Lines 129-133: select(...).eq('id', order_id).single(); no row raises.
confirm_select(t) ==
    /\ tasks[t].kind = "confirm" /\ tasks[t].pc = "select"
    /\ \E o \in StoreOutcomes :
       LET tk == tasks[t]
           order_id == IntOf(tk.cid[3])
       IN  IF o = "raise" \/ order_id \notin DOMAIN orders
           THEN tasks' = [tasks EXCEPT ![t].pc = "errpatch", ![t].raised = TRUE]
           ELSE LET order == orders[order_id]
                    product == ProdutosGet(order.product_id)
                IN  tasks' = [tasks EXCEPT ![t].order = order_id,
                                  ![t].thread = order.thread_id,
                                  ![t].pc = IF order.thread_id # 0 /\ product # NoProduct
                                            THEN "post" ELSE "view"]
    /\ UNCHANGED <<orders, threadMsgs, last>>

\* A confirm that goes on to the view without posting the download link: not what
\* the code does, and C15_ConfirmFlow tells the two apart.
confirm_post_skipped(t) ==
    /\ tasks[t].kind = "confirm" /\ tasks[t].pc = "post"
    /\ tasks' = [tasks EXCEPT ![t].pc = "view"]
    /\ UNCHANGED <<orders, threadMsgs, last>>

\* Line 136: the download-link message into the order's thread.
confirm_post(t) ==
    /\ tasks[t].kind = "confirm" /\ tasks[t].pc = "post"
    /\ \E o \in PlatformOutcomes :
       /\ threadMsgs' = PostMessage(threadMsgs, tasks[t].thread, "download", o)
       /\ tasks' = [tasks EXCEPT ![t].pc = IF Raises(o) THEN "errpatch" ELSE "view",
                                 ![t].stepfail = @ \/ (o = "non2xx"),
                                 ![t].raised = @ \/ Raises(o)]
    /\ UNCHANGED <<orders, last>>

\* Line 139: build_pending_orders_view(page=current_page); a store fault is caught
\* inside it (lines 85-87) and becomes the view's text.
confirm_view(t) ==
    /\ tasks[t].kind = "confirm" /\ tasks[t].pc = "view"
    /\ \E o \in StoreOutcomes :
       tasks' = [tasks EXCEPT ![t].pc = "patch",
                   ![t].raised = @ \/ (o = "raise"),
                   ![t].view = build_pending_orders_view(IntOf(tasks[t].cid[4]), orders, o)]
    /\ UNCHANGED <<orders, threadMsgs, last>>

\* Line 140: replace the admin's original message by the view.
confirm_patch(t) ==
    /\ tasks[t].kind = "confirm" /\ tasks[t].pc = "patch"
    /\ \E o \in PlatformOutcomes :
       tasks' = [tasks EXCEPT ![t] = Patch(tasks[t], "view", o, "errpatch")]
    /\ UNCHANGED <<orders, threadMsgs, last>>

\* Lines 142-144: the except block; an exception of its own patch is unhandled.
confirm_except(t) ==
    /\ tasks[t].kind = "confirm" /\ tasks[t].pc = "errpatch"
    /\ \E o \in PlatformOutcomes :
       tasks' = [tasks EXCEPT ![t] = Patch(tasks[t], "error", o, "crashed")]
    /\ UNCHANGED <<orders, threadMsgs, last>>

handle_confirm_order ==
    \E t \in DOMAIN tasks :
        \/ confirm_update(t) \/ confirm_select(t) \/ confirm_post(t)
        \/ confirm_view(t) \/ confirm_patch(t) \/ confirm_except(t)

\* ---------------------------------------------------- handle_cancel_order
\* Lines 151-156.
cancel_update(t) ==
    /\ tasks[t].kind = "cancel" /\ tasks[t].pc = "start"
    /\ LET tk == tasks[t] IN
       IF ~OrderIdBound(tk.cid)
       THEN /\ tasks' = [tasks EXCEPT ![t].pc = "crashed"]
            /\ UNCHANGED orders
       ELSE IF ~PageParsed(tk.cid)
       THEN /\ tasks' = [tasks EXCEPT ![t].pc = "errpatch"]
            /\ UNCHANGED orders
       ELSE \E o \in StoreOutcomes :
            LET order_id == IntOf(tk.cid[3]) IN
            IF o = "raise"
            THEN /\ tasks' = [tasks EXCEPT ![t].pc = "errpatch", ![t].raised = TRUE]
                 /\ UNCHANGED orders
            ELSE /\ orders' = UpdateStatus(orders, order_id, "cancelled")
                 /\ tasks' = [tasks EXCEPT ![t].pc = "select",
                                 ![t].pre = IF order_id \in DOMAIN orders
                                            THEN orders[order_id].status ELSE "absent"]
    /\ UNCHANGED <<threadMsgs, last>>

\* Lines 158-161.
cancel_select(t) ==
    /\ tasks[t].kind = "cancel" /\ tasks[t].pc = "select"
    /\ \E o \in StoreOutcomes :
       LET tk == tasks[t]
           order_id == IntOf(tk.cid[3])
       IN  IF o = "raise" \/ order_id \notin DOMAIN orders
           THEN tasks' = [tasks EXCEPT ![t].pc = "errpatch", ![t].raised = TRUE]
           ELSE LET order == orders[order_id] IN
                tasks' = [tasks EXCEPT ![t].order = order_id,
                              ![t].thread = order.thread_id,
                              ![t].pc = IF order.thread_id # 0 THEN "post" ELSE "view"]
    /\ UNCHANGED <<orders, threadMsgs, last>>

\* Line 162: the cancellation notice into the order's thread.
cancel_post(t) ==
    /\ tasks[t].kind = "cancel" /\ tasks[t].pc = "post"
    /\ \E o \in PlatformOutcomes :
       /\ threadMsgs' = PostMessage(threadMsgs, tasks[t].thread, "cancel_notice", o)
       /\ tasks' = [tasks EXCEPT ![t].pc = IF Raises(o) THEN "errpatch" ELSE "view",
                                 ![t].stepfail = @ \/ (o = "non2xx"),
                                 ![t].raised = @ \/ Raises(o)]
    /\ UNCHANGED <<orders, last>>

\* Line 164.
cancel_view(t) ==
    /\ tasks[t].kind = "cancel" /\ tasks[t].pc = "view"
    /\ \E o \in StoreOutcomes :
       tasks' = [tasks EXCEPT ![t].pc = "patch",
                   ![t].raised = @ \/ (o = "raise"),
                   ![t].view = build_pending_orders_view(IntOf(tasks[t].cid[4]), orders, o)]
    /\ UNCHANGED <<orders, threadMsgs, last>>

\* Line 165.
cancel_patch(t) ==
    /\ tasks[t].kind = "cancel" /\ tasks[t].pc = "patch"
    /\ \E o \in PlatformOutcomes :
       tasks' = [tasks EXCEPT ![t] = Patch(tasks[t], "view", o, "errpatch")]
    /\ UNCHANGED <<orders, threadMsgs, last>>

\* Lines 167-169.
cancel_except(t) ==
    /\ tasks[t].kind = "cancel" /\ tasks[t].pc = "errpatch"
    /\ \E o \in PlatformOutcomes :
       tasks' = [tasks EXCEPT ![t] = Patch(tasks[t], "error", o, "crashed")]
    /\ UNCHANGED <<orders, threadMsgs, last>>

handle_cancel_order ==
    \E t \in DOMAIN tasks :
        \/ cancel_update(t) \/ cancel_select(t) \/ cancel_post(t)
        \/ cancel_view(t) \/ cancel_patch(t) \/ cancel_except(t)

\* ------------------------------------------------------ handle_buy_action
\* A buy without raise_for_status(): a refused create-thread goes on to the next
\* steps with no thread id.  Not what the code does, and C20_CreateOrderOrdering
\* tells the two apart.
buy_create_thread_unchecked(t) ==
    /\ tasks[t].kind = "buy" /\ tasks[t].pc = "start"
    /\ LET tk == tasks[t]
           product == ProdutosGet(RestAfterFirst(tk.cid))
       IN  IF product = NoProduct
           THEN /\ \E o \in PlatformOutcomes :
                   tasks' = [tasks EXCEPT ![t] = Patch(tk, "not_found", o, "errpatch")]
                /\ UNCHANGED threadMsgs
           ELSE IF tk.member = "absent"
           THEN /\ tasks' = [tasks EXCEPT ![t].pc = "errpatch"]
                /\ UNCHANGED threadMsgs
           ELSE \E o \in PlatformOutcomes :
                /\ threadMsgs' = IF Delivered(o) THEN Append(threadMsgs, <<>>) ELSE threadMsgs
                /\ tasks' = [tasks EXCEPT
                       ![t].pc = IF Raises(o) THEN "errpatch" ELSE "add_member",
                       ![t].thread = IF o = "ok" THEN Len(threadMsgs) + 1 ELSE 0,
                       ![t].stepfail = (o # "ok"),
                       ![t].raised = Raises(o)]
    /\ UNCHANGED <<orders, last>>

\* Lines 176-186: resolve the product, then create the private thread.
\* raise_for_status() turns a non-2xx reply into an exception.
buy_create_thread(t) ==
    /\ tasks[t].kind = "buy" /\ tasks[t].pc = "start"
    /\ LET tk == tasks[t]
           product == ProdutosGet(RestAfterFirst(tk.cid))
       IN  IF product = NoProduct
           THEN /\ \E o \in PlatformOutcomes :
                   tasks' = [tasks EXCEPT ![t] = Patch(tk, "not_found", o, "errpatch")]
                /\ UNCHANGED threadMsgs
           ELSE IF tk.member = "absent"                 \* interaction['member']: KeyError
           THEN /\ tasks' = [tasks EXCEPT ![t].pc = "errpatch"]
                /\ UNCHANGED threadMsgs
           ELSE \E o \in PlatformOutcomes :
                /\ threadMsgs' = IF Delivered(o) THEN Append(threadMsgs, <<>>) ELSE threadMsgs
                /\ tasks' = [tasks EXCEPT
                       ![t].pc = IF o = "ok" THEN "add_member" ELSE "errpatch",
                       ![t].thread = IF o = "ok" THEN Len(threadMsgs) + 1 ELSE 0,
                       ![t].stepfail = (o # "ok"),
                       ![t].raised = (o # "ok")]
    /\ UNCHANGED <<orders, last>>

\* Line 188: add the buyer to the thread; the reply is not inspected.
buy_add_member(t) ==
    /\ tasks[t].kind = "buy" /\ tasks[t].pc = "add_member"
    /\ \E o \in PlatformOutcomes :
       tasks' = [tasks EXCEPT ![t].pc = IF Raises(o) THEN "errpatch" ELSE "insert",
                              ![t].stepfail = @ \/ (o # "ok"),
                              ![t].raised = @ \/ Raises(o)]
    /\ UNCHANGED <<orders, threadMsgs, last>>

\* Line 190: insert the order row; the store assigns the next id.
buy_insert(t) ==
    /\ tasks[t].kind = "buy" /\ tasks[t].pc = "insert"
    /\ \E o \in StoreOutcomes :
       IF o = "raise"
       THEN /\ tasks' = [tasks EXCEPT ![t].pc = "errpatch", ![t].stepfail = TRUE,
                                      ![t].raised = TRUE]
            /\ UNCHANGED orders
       ELSE /\ orders' = Append(orders, [status |-> "pending_payment",
                                         thread_id |-> tasks[t].thread,
                                         product_id |-> RestAfterFirst(tasks[t].cid)])
            /\ tasks' = [tasks EXCEPT ![t].pc = "post", ![t].order = Len(orders) + 1]
    /\ UNCHANGED <<threadMsgs, last>>

\* Line 195: the payment message into the thread; the reply is not inspected.
buy_post(t) ==
    /\ tasks[t].kind = "buy" /\ tasks[t].pc = "post"
    /\ \E o \in PlatformOutcomes :
       /\ threadMsgs' = PostMessage(threadMsgs, tasks[t].thread, "payment", o)
       /\ tasks' = [tasks EXCEPT ![t].pc = IF Raises(o) THEN "errpatch" ELSE "patch",
                                 ![t].stepfail = @ \/ (o # "ok"),
                                 ![t].raised = @ \/ Raises(o)]
    /\ UNCHANGED <<orders, last>>

\* Line 197: the success follow-up.
buy_patch(t) ==
    /\ tasks[t].kind = "buy" /\ tasks[t].pc = "patch"
    /\ \E o \in PlatformOutcomes :
       tasks' = [tasks EXCEPT ![t] = Patch(tasks[t], "buy_ok", o, "errpatch")]
    /\ UNCHANGED <<orders, threadMsgs, last>>

\* Lines 198-200: the except block.
buy_except(t) ==
    /\ tasks[t].kind = "buy" /\ tasks[t].pc = "errpatch"
    /\ \E o \in PlatformOutcomes :
       tasks' = [tasks EXCEPT ![t] = Patch(tasks[t], "buy_fail", o, "crashed")]
    /\ UNCHANGED <<orders, threadMsgs, last>>

handle_buy_action ==
    \E t \in DOMAIN tasks :
        \/ buy_create_thread(t) \/ buy_add_member(t) \/ buy_insert(t)
        \/ buy_post(t) \/ buy_patch(t) \/ buy_except(t)

\* ------------------------------------------------ handle_dashboard_command
\* Line 218: select the completed orders.
dashboard_select(t) ==
    /\ tasks[t].kind = "dashboard" /\ tasks[t].pc = "start"
    /\ \E o \in StoreOutcomes :
       tasks' = [tasks EXCEPT
           ![t].raised = (o = "raise"),
           ![t].pc = IF o = "raise" THEN "errpatch"
                     ELSE IF \E i \in DOMAIN orders : orders[i].status = "completed"
                          THEN "patch" ELSE "patch_none"]
    /\ UNCHANGED <<orders, threadMsgs, last>>

\* Lines 219-220: the "no sales" text, or the rendered image.
dashboard_patch(t) ==
    /\ tasks[t].kind = "dashboard" /\ tasks[t].pc \in {"patch", "patch_none"}
    /\ \E o \in PlatformOutcomes :
       tasks' = [tasks EXCEPT ![t] =
           Patch(tasks[t], IF tasks[t].pc = "patch" THEN "dashboard" ELSE "no_sales",
                 o, "errpatch")]
    /\ UNCHANGED <<orders, threadMsgs, last>>

\* Line 221: the except block.
dashboard_except(t) ==
    /\ tasks[t].kind = "dashboard" /\ tasks[t].pc = "errpatch"
    /\ \E o \in PlatformOutcomes :
       tasks' = [tasks EXCEPT ![t] = Patch(tasks[t], "error", o, "crashed")]
    /\ UNCHANGED <<orders, threadMsgs, last>>

handle_dashboard_command ==
    \E t \in DOMAIN tasks :
        dashboard_select(t) \/ dashboard_patch(t) \/ dashboard_except(t)

\* ------------------------------------------------------------ the webhook
\* One call of /interactions with request r: the response, and the thread it starts.
webhook(r) ==
    \E so \in StoreOutcomes :
        LET resp == Respond(r, orders, so) IN
        /\ resp.spawn # "" => Len(tasks) < MaxTasks
        /\ last' = [req |-> r, resp |-> resp]
        /\ tasks' = IF resp.spawn # ""
                    THEN Append(tasks, NewTask(resp.spawn, r, resp.rtype))
                    ELSE tasks
        /\ UNCHANGED <<orders, threadMsgs>>

interactions_handler == \E r \in Requests : webhook(r)

\* The interactions that are acknowledged as deferred.  The threads of the pedidos
\* clicks never read the member, so in Spec the admin's click stands for every
\* member's.
DeferredRequests ==
    { r \in SignedRequests : /\ Respond(r, <<>>, "ok").spawn # ""
                             /\ StartsWith(r.cid, "pedidos") => is_admin(r) }

deferred_interaction == \E r \in DeferredRequests : webhook(r)

\* ------------------------------------------------------------ specification
\* The store as the process finds it: up to MaxInitOrders pending orders left by
\* earlier purchases, each with its thread.
InitOrders(k) ==
    [i \in 1..k |-> [status |-> "pending_payment", thread_id |-> i,
                     product_id |-> PRODUTOS[1]]]

NoCall == [req |-> NoReq, resp |-> Resp(0, 0, "", NoView, "", 0, FALSE)]

Init ==
    /\ \E k \in 0..MaxInitOrders :
          /\ orders = InitOrders(k)
          /\ threadMsgs = [i \in 1..k |-> <<>>]
    /\ tasks = <<>>
    /\ last = NoCall

\* The deferred interactions and their background threads, interleaved at the
\* collaborator calls.
Next ==
    \/ deferred_interaction
    \/ handle_buy_action
    \/ handle_confirm_order
    \/ handle_cancel_order
    \/ handle_dashboard_command

Spec == Init /\ [][Next]_vars

\* Each started thread is scheduled again and again until it ends, and each
\* collaborator call it makes returns or raises.
step(t) ==
    \/ buy_create_thread(t) \/ buy_add_member(t) \/ buy_insert(t) \/ buy_post(t)
    \/ buy_patch(t) \/ buy_except(t)
    \/ confirm_update(t) \/ confirm_select(t) \/ confirm_post(t) \/ confirm_view(t)
    \/ confirm_patch(t) \/ confirm_except(t)
    \/ cancel_update(t) \/ cancel_select(t) \/ cancel_post(t) \/ cancel_view(t)
    \/ cancel_patch(t) \/ cancel_except(t)
    \/ dashboard_select(t) \/ dashboard_patch(t) \/ dashboard_except(t)

FairSpec == Spec /\ \A t \in 1..MaxTasks : WF_vars(t \in DOMAIN tasks /\ step(t))

\* The webhook alone: one call, over every request and every content of the
\* store.  The handler keeps no state between calls, so its response depends on
\* nothing else.
Statuses == {"pending_payment", "completed", "cancelled"}

InitWebhook ==
    /\ \E k \in 0..MaxInitOrders :
          /\ orders \in [1..k -> [status : Statuses, thread_id : {1}, product_id : {PRODUTOS[1]}]]
          /\ threadMsgs = [i \in 1..k |-> <<>>]
    /\ tasks = <<>>
    /\ last = NoCall

NextWebhook == last = NoCall /\ interactions_handler

SpecWebhook == InitWebhook /\ [][NextWebhook]_vars

\* ================================================================== claims
Terminal == {"completed", "cancelled"}

Verified(r) == r \in SignedRequests

Delivered_fups(tk) == { k \in DOMAIN tk.fups : tk.fups[k].delivered }

OutcomeMessages(th) ==
    { k \in DOMAIN threadMsgs[th] : threadMsgs[th][k] \in {"download", "cancel_notice"} }

\* C1: an order whose status is completed or cancelled never changes status
\* again, whatever confirm, cancel or buy step is taken.
C1_TerminalStatusIsFinal ==
    [][\A i \in DOMAIN orders :
          orders[i].status \in Terminal => orders'[i].status = orders[i].status]_vars

\* C2: a confirm that finds its order already completed leaves every completed
\* order completed, and, when none of its collaborator calls raises, it does not
\* crash and its only follow-up is the re-rendered pending view (a page of
\* pending orders or the "no pending orders" text), never the error message.
C2_ConfirmIdempotent ==
    /\ [][\A t \in DOMAIN tasks :
             (tasks[t].kind = "confirm" /\ tasks'[t] # tasks[t]) =>
                 \A i \in DOMAIN orders :
                     orders[i].status = "completed" => orders'[i].status = "completed"]_vars
    /\ [](\A t \in DOMAIN tasks :
             (tasks[t].kind = "confirm" /\ tasks[t].pre = "completed" /\ ~tasks[t].raised) =>
                 /\ tasks[t].pc \notin {"crashed", "errpatch"}
                 /\ \A k \in DOMAIN tasks[t].fups : tasks[t].fups[k].kind = "view"
                 /\ tasks[t].pc = "done" =>
                        /\ Len(tasks[t].fups) = 1
                        /\ tasks[t].view.kind \in {"pending", "no_pending"})

\* A second confirm of a completed order has run to its end with no call raising.
C2_Witness ==
    \E t \in DOMAIN tasks :
        /\ tasks[t].kind = "confirm" /\ tasks[t].pre = "completed"
        /\ tasks[t].pc = "done" /\ ~tasks[t].raised
        /\ orders[IntOf(tasks[t].cid[3])].status = "completed"

\* C3: over any interleaving of confirm and cancel tasks, a thread receives at
\* most one outcome message (a download link or a cancellation notice).
C3_OneOutcomeMessage ==
    \A th \in DOMAIN threadMsgs : Cardinality(OutcomeMessages(th)) <= 1

\* C4: a request missing a signature header gets the 401 "missing" rejection, a
\* request with a well-formed but wrong signature the 401 "invalid" rejection,
\* whatever its body; neither enters the router, reads the store or starts a task.
C4_SignatureGate ==
    LET r == last.req
        a == last.resp
        missing == r.sig \in {"absent", "empty"} \/ r.ts = "absent"
        wrong == r.sig = "wrong" /\ r.ts = "present"
    IN  last # NoCall =>
            /\ missing => a.status = 401 /\ a.content = "missing_signature"
            /\ wrong => a.status = 401 /\ a.content = "invalid_signature"
            /\ (missing \/ wrong) =>
                   ~a.routed /\ a.spawn = "" /\ a.reads = 0 /\ tasks = <<>>

\* C5: for a verified interaction, a background task is started if and only if
\* the synchronous response has type 5 or 6 (so none with type 1, 4 or 7).
C5_DeferredShape ==
    Verified(last.req) =>
        /\ (last.resp.spawn # "") <=> (last.resp.rtype \in {5, 6})
        /\ (Len(tasks) = 1) <=> (last.resp.rtype \in {5, 6})

\* A confirm click has been acknowledged with type 6 and its task started.
C5_Witness ==
    /\ Verified(last.req) /\ last.resp.rtype = 6
    /\ Len(tasks) = 1 /\ tasks[1].kind = "confirm"

\* C6: no background task ends (returns or dies) without having issued a
\* follow-up edit of the original message.
C6_EveryTaskReplies ==
    \A t \in DOMAIN tasks :
        tasks[t].pc \in {"done", "crashed"} => Len(tasks[t].fups) >= 1

\* C7: at most one follow-up is delivered for an interaction's token.
C7_AtMostOneFollowUp ==
    \A t \in DOMAIN tasks : Cardinality(Delivered_fups(tasks[t])) <= 1

\* C8: if one of the four steps of a buy task failed (an exception or a non-2xx
\* reply), every follow-up delivered to the buyer is the failure message.
C8_BuyFailureReported ==
    \A t \in DOMAIN tasks :
        (tasks[t].kind = "buy" /\ tasks[t].stepfail) =>
            \A k \in Delivered_fups(tasks[t]) : tasks[t].fups[k].kind = "buy_fail"

\* An interaction type, command name, custom-id prefix or action that the
\* router's table does not list.
Unrecognized(r) ==
    \/ r.itype \notin {1, 2, 3}
    \/ r.itype = 2 /\ r.name \notin {"comprar", "pedidos", "dashboard"}
    \/ /\ r.itype = 3
       /\ \/ ~(StartsWith(r.cid, "catalog") \/ StartsWith(r.cid, "buy")
                \/ StartsWith(r.cid, "pedidos"))
          \/ StartsWith(r.cid, "catalog") /\ r.cid[2] \notin {"next", "prev"}
          \/ StartsWith(r.cid, "pedidos")
                /\ r.cid[2] \notin {"next", "prev", "confirm", "cancel"}

\* C9: every verified call gets a JSON response, and an unrecognized type, name,
\* prefix or action gets the generic type-4 message with no store read and no task.
C9_UnrecognizedIsGeneric ==
    Verified(last.req) =>
        /\ last.resp.status = 200 /\ last.resp.rtype # 0
        /\ Unrecognized(last.req) => last.resp = Generic /\ tasks = <<>>

\* A custom_id of the catalog or pedidos namespace that is not a documented
\* encoding: wrong field count, non-numeric page or order field, unknown action.
InvalidEncoding(cid) ==
    \/ /\ StartsWith(cid, "catalog")
       /\ cid[2] \notin {"next", "prev"} \/ Len(cid) # 3 \/ ~IsInt(cid[3])
    \/ /\ StartsWith(cid, "pedidos")
       /\ \/ cid[2] \notin {"next", "prev", "confirm", "cancel"}
          \/ cid[2] \in {"next", "prev"} /\ (Len(cid) # 3 \/ ~IsInt(cid[3]))
          \/ /\ cid[2] \in {"confirm", "cancel"}
             /\ Len(cid) # 4 \/ ~IsInt(cid[3]) \/ ~IsInt(cid[4])

\* C10: an invalid encoding in a recognized namespace is answered with the
\* generic unrecognized response; it faults neither the handler nor a task.
C10_InvalidEncodingIsGeneric ==
    /\ (Verified(last.req) /\ last.req.itype = 3 /\ InvalidEncoding(last.req.cid)) =>
           last.resp = Generic
    /\ \A t \in DOMAIN tasks :
           (InvalidEncoding(tasks[t].cid) /\ ~tasks[t].raised) => tasks[t].pc # "crashed"

\* C11: a pedidos or dashboard command from an invoker without the admin role
\* (or without member/roles data) is answered at once with the type-4
\* permission-denied message; no store query is made and no task is started.
C11_CommandGate ==
    LET r == last.req IN
    (Verified(r) /\ r.itype = 2 /\ r.name \in {"pedidos", "dashboard"}
        /\ r.member # "admin") =>
        /\ last.resp = Denied
        /\ last.resp.rtype = 4 /\ last.resp.reads = 0 /\ last.resp.spawn = ""
        /\ tasks = <<>>

\* A member without the role has sent the dashboard command and was denied.
C11_Witness ==
    /\ Verified(last.req) /\ last.req.itype = 2 /\ last.req.name = "dashboard"
    /\ last.req.member = "plain" /\ last.resp.content = "denied"

\* max(0, min(x, n - 1)), written out for the claims.
Clamp(x, n) == IF x < 0 THEN 0 ELSE IF x > n - 1 THEN n - 1 ELSE x

\* A click on a previous/next control: <namespace>_<prev|next>_<page>.
NavClick(r) ==
    /\ Verified(r) /\ r.itype = 3 /\ Len(r.cid) = 3
    /\ r.cid[1] \in {"catalog", "pedidos"} /\ r.cid[2] \in {"prev", "next"}
    /\ IsInt(r.cid[3])

\* The page a previous/next control asks for.
TargetPage(cid) == IntOf(cid[3]) + (IF cid[2] = "next" THEN 1 ELSE -1)

\* C12: for a previous/next click carrying page p over N >= 1 items, the page
\* rendered is p -/+ 1 clamped into [0, N-1] and shows the item at that index;
\* over N = 0 pending orders the view is the fixed text with no controls.  (For
\* the pending orders: when the store query of the view succeeded.)
C12_PaginationClamp ==
    LET r == last.req
        v == last.resp.view
        pending == PendingOrders(orders)
    IN  NavClick(r) =>
            /\ last.resp.status = 200 /\ last.resp.rtype = 7
            /\ IF r.cid[1] = "catalog"
               THEN /\ v.kind = "catalog"
                    /\ v.page = Clamp(TargetPage(r.cid), Len(PRODUTOS))
                    /\ v.buy = PRODUTOS[v.page + 1]
               ELSE \/ v.kind = "fetch_error"
                    \/ /\ Len(pending) >= 1
                       /\ v.kind = "pending"
                       /\ v.page = Clamp(TargetPage(r.cid), Len(pending))
                       /\ v.order = pending[v.page + 1]
                    \/ /\ Len(pending) = 0
                       /\ v = [NoView EXCEPT !.kind = "no_pending"]

\* pedidos_prev_-1 was clicked over two pending orders and page 0 was rendered
\* (the target -2 lies below the range).
C12_Witness ==
    /\ NavClick(last.req) /\ last.req.cid = <<"pedidos", "prev", "-1">>
    /\ Len(PendingOrders(orders)) = 2
    /\ last.resp.view.kind = "pending" /\ last.resp.view.page = 0

\* The view the handler renders for a click on the button with custom id `id`.
Click(id) == Respond(Req("valid", "present", TRUE, 3, "", id, "plain"), orders, "ok").view

\* The view reached from the comprar response by k clicks on the next arrow.
RECURSIVE NextClicks(_)
NextClicks(k) == IF k = 0 THEN comprar_view ELSE Click(NextClicks(k - 1).nextId)

\* C13: the view of the comprar response is the view reached from it by its next
\* arrow (catalog_next_0) and then that page's previous arrow (catalog_prev_1);
\* and every catalog view the handler renders, by whatever click, is the view
\* reached from the comprar response by as many next clicks as its page index.
C13_CatalogPathIndependent ==
    LET r == last.req
        v == last.resp.view
    IN  /\ (Verified(r) /\ r.itype = 2 /\ r.name = "comprar") =>
               /\ v.nextId = <<"catalog", "next", "0">>
               /\ Click(v.nextId).prevId = <<"catalog", "prev", "1">>
               /\ Click(Click(v.nextId).prevId) = v
        /\ v.kind = "catalog" => v = NextClicks(v.page)

\* The comprar command was answered, and its next arrow leads to page 1.
C13_Witness ==
    /\ Verified(last.req) /\ last.req.itype = 2 /\ last.req.name = "comprar"
    /\ last.resp.view.kind = "catalog" /\ Click(last.resp.view.nextId).page = 1

\* C14: in every navigable view rendered (the first catalog page, a catalog page
\* after a click, a page of pending orders) the previous arrow is disabled
\* exactly on page 0, the next arrow exactly on page N-1, and both arrows' custom
\* ids carry the page rendered.
C14_NavigationButtons ==
    LET v == last.resp.view
        N == IF v.kind = "catalog" THEN Len(PRODUTOS) ELSE Len(PendingOrders(orders))
        ns == IF v.kind = "catalog" THEN "catalog" ELSE "pedidos"
    IN  v.kind \in {"catalog", "pending"} =>
            /\ v.prevDisabled <=> (v.page = 0)
            /\ v.nextDisabled <=> (v.page = N - 1)
            /\ Len(v.prevId) = 3 /\ v.prevId[1] = ns /\ v.prevId[2] = "prev"
            /\ Len(v.nextId) = 3 /\ v.nextId[1] = ns /\ v.nextId[2] = "next"
            /\ IsInt(v.prevId[3]) /\ IntOf(v.prevId[3]) = v.page
            /\ IsInt(v.nextId[3]) /\ IntOf(v.nextId[3]) = v.page

\* The last catalog page was rendered by a click: next arrow disabled, previous
\* arrow enabled, both carrying page 2.
C14_Witness ==
    /\ last.req.itype = 3 /\ last.resp.view.kind = "catalog"
    /\ last.resp.view.page = Len(PRODUTOS) - 1
    /\ last.resp.view.nextDisabled /\ ~last.resp.view.prevDisabled

\* No collaborator call of the task has failed so far: none raised, the post into
\* the thread was not refused, and every follow-up was delivered.
NoFailure(tk) ==
    /\ ~tk.raised /\ ~tk.stepfail
    /\ \A k \in DOMAIN tk.fups : tk.fups[k].delivered

\* A confirm task that found its order pending when it wrote the status.
ConfirmOfPending(tk) == tk.kind = "confirm" /\ tk.pre = "pending_payment"

\* What C15 says of one such task at every moment while no call of it has failed.
C15_Order(t) ==
    LET tk == tasks[t]
        o == IntOf(tk.cid[3])
    IN  (ConfirmOfPending(tk) /\ NoFailure(tk)) =>
            /\ tk.ack = 6
            /\ tk.pc \notin {"crashed", "errpatch"}
            /\ orders[o].status # "pending_payment"
            /\ tk.view # NoView =>
                   /\ tk.view.kind \in {"pending", "no_pending"}
                   /\ tk.view.order # o
                   /\ Len(orders) = 1 => tk.view.kind = "no_pending"
            /\ tk.fups # <<>> =>
                   /\ "download" \in { threadMsgs[orders[o].thread_id][k] :
                                         k \in DOMAIN threadMsgs[orders[o].thread_id] }
                   /\ tk.fups = << [kind |-> "view", delivered |-> TRUE] >>
                   /\ tk.view # NoView
                   /\ tk.pc = "done"

\* C15: a confirm click on a pending order o is acknowledged with type 6; then,
\* as long as no collaborator call fails, o is no longer pending, the download
\* link is in o's thread before the original message is replaced, the
\* replacement is a pending view that does not show o ("no pending orders" when
\* o was the only order and no purchase has added one), and the task does reach
\* that replacement (or a call of it fails).
C15_ConfirmFlow ==
    /\ [](\A t \in DOMAIN tasks : C15_Order(t))
    /\ \A t \in 1..MaxTasks :
           (t \in DOMAIN tasks /\ ConfirmOfPending(tasks[t])) ~>
               /\ t \in DOMAIN tasks
               /\ ~NoFailure(tasks[t]) \/ (tasks[t].pc = "done" /\ tasks[t].fups # <<>>)

\* The confirm of the only pending order has ended with no failure, and the admin
\* sees "no pending orders".
C15_Witness ==
    \E t \in DOMAIN tasks :
        /\ ConfirmOfPending(tasks[t]) /\ NoFailure(tasks[t]) /\ tasks[t].pc = "done"
        /\ tasks[t].view.kind = "no_pending" /\ Len(orders) = 1
        /\ threadMsgs[1] = <<"download">>

\* The status a confirm or cancel task writes.
Written(tk) == IF tk.kind = "confirm" THEN "completed" ELSE "cancelled"

\* C16: when a confirm or cancel names an order that is not in the store, or the
\* platform refuses the post into the order's thread (the thread is gone), every
\* follow-up the task issues is the error message naming the order, one is
\* issued by the time the task ends, and the task has changed no order's status.
C16_MissingOrderOrThread ==
    \A t \in DOMAIN tasks :
        LET tk == tasks[t] IN
        (tk.kind \in {"confirm", "cancel"} /\ (tk.pre = "absent" \/ tk.stepfail)) =>
            /\ \A k \in DOMAIN tk.fups : tk.fups[k].kind = "error"
            /\ tk.pc \in {"done", "crashed"} => tk.fups # <<>>
            /\ tk.pre \in {"absent", Written(tk)}

C18_AdminOnlyControls ==
    LET r == last.req IN
    (Verified(r) /\ r.itype = 3 /\ StartsWith(r.cid, "pedidos") /\ r.member # "admin") =>
        /\ last.resp.spawn = "" /\ tasks = <<>>
        /\ last.resp.view = NoView /\ last.resp.reads = 0

\* The order a confirm/cancel custom id names (0 = none parsed).
NamedOrder(cid) == IF OrderIdBound(cid) THEN IntOf(cid[3]) ELSE 0

\* C19: every step of a task started by pedidos_confirm_<id>_<page> or
\* pedidos_cancel_<id>_<page> leaves every order other than <id> as it was, adds
\* or removes no order, and leaves every thread other than that order's as it was.
C19_OnlyNamedOrder ==
    [][\A t \in DOMAIN tasks :
          (tasks[t].kind \in {"confirm", "cancel"} /\ tasks'[t] # tasks[t]) =>
              LET id == NamedOrder(tasks[t].cid) IN
              /\ DOMAIN orders' = DOMAIN orders
              /\ \A i \in DOMAIN orders : i # id => orders'[i] = orders[i]
              /\ id \in DOMAIN orders =>
                     /\ orders'[id].thread_id = orders[id].thread_id
                     /\ orders'[id].product_id = orders[id].product_id
              /\ DOMAIN threadMsgs' = DOMAIN threadMsgs
              /\ \A th \in DOMAIN threadMsgs :
                     (id \notin DOMAIN orders \/ th # orders[id].thread_id) =>
                         threadMsgs'[th] = threadMsgs[th]]_vars

\* pedidos_confirm_1_0 has run to its end after order 1 had been cancelled, so
\* that order 2 sat at page 0: order 2 is still pending and its thread is empty.
C19_Witness ==
    \E t \in DOMAIN tasks :
        /\ tasks[t].kind = "confirm" /\ tasks[t].cid = <<"pedidos", "confirm", "1", "0">>
        /\ tasks[t].pre = "cancelled" /\ tasks[t].pc = "done"
        /\ Len(orders) >= 2 /\ orders[2].status = "pending_payment"
        /\ threadMsgs[2] = <<>> /\ "download" \in { threadMsgs[1][k] : k \in DOMAIN threadMsgs[1] }

\* The product a buy click names.
BuyProduct(tk) == ProdutosGet(RestAfterFirst(tk.cid))

\* C20: a buy task inserts a row only once its create-thread succeeded and its
\* product resolved, and the row is [pending_payment, the thread that task
\* created, that product]; the thread id a task holds is that of the thread its
\* own create-thread call added; it posts only into that thread and only after
\* the insert; with an unknown product or a failed create-thread it inserts and
\* posts nothing; and no step of any task removes a thread or a message.
C20_CreateOrderOrdering ==
    /\ [][\A t \in DOMAIN tasks :
             (tasks[t].kind = "buy" /\ tasks'[t] # tasks[t]) =>
                 /\ orders' # orders =>
                        /\ tasks[t].thread \in DOMAIN threadMsgs
                        /\ BuyProduct(tasks[t]) # NoProduct
                        /\ orders' = Append(orders, [status |-> "pending_payment",
                                                     thread_id |-> tasks[t].thread,
                                                     product_id |-> BuyProduct(tasks[t])])
                 /\ tasks'[t].thread # tasks[t].thread =>
                        /\ tasks[t].thread = 0
                        /\ Len(threadMsgs') = Len(threadMsgs) + 1
                        /\ tasks'[t].thread = Len(threadMsgs')
                 /\ \A th \in DOMAIN threadMsgs :
                        threadMsgs'[th] # threadMsgs[th] =>
                            th = tasks[t].thread /\ tasks[t].order # 0]_vars
    /\ [][/\ Len(threadMsgs') >= Len(threadMsgs)
          /\ \A th \in DOMAIN threadMsgs :
                 /\ Len(threadMsgs'[th]) >= Len(threadMsgs[th])
                 /\ SubSeq(threadMsgs'[th], 1, Len(threadMsgs[th])) = threadMsgs[th]]_vars
    /\ [](\A t \in DOMAIN tasks :
             (tasks[t].kind = "buy" /\ tasks[t].pc # "start"
                 /\ (BuyProduct(tasks[t]) = NoProduct \/ tasks[t].thread = 0)) =>
                 /\ tasks[t].order = 0
                 /\ tasks[t].pc \in {"errpatch", "done", "crashed"})

\* A buy task created its thread and inserted its row, a later step failed, and
\* the thread and the row are still there.
C20_Witness ==
    \E t \in DOMAIN tasks :
        /\ tasks[t].kind = "buy" /\ tasks[t].order # 0 /\ tasks[t].stepfail
        /\ tasks[t].pc \in {"done", "crashed"}
        /\ tasks[t].thread \in DOMAIN threadMsgs
        /\ orders[tasks[t].order].thread_id = tasks[t].thread
====
